---- MODULE Spec2Model ----
(***************************************************************************)
(* The media streaming gateway of backend/server.js: the handler of        *)
(* GET /api/media/:fileId and streamMedia, as a state machine.             *)
(*                                                                         *)
(* JavaScript strings that the code parses, matches or builds are          *)
(* sequences of one-character strings; JavaScript numbers are records      *)
(* [nan, v] so that NaN and its arithmetic are explicit.                   *)
(***************************************************************************)
EXTENDS Integers, Sequences, FiniteSets, TLC

\* ------------------------------------------------------------------ bounds
\* Largest size of an upstream object, in bytes.
MaxSize == 3

\* The media requests in flight.
Reqs == {1}

\* The requests of the specification of concurrent requests, the requests of
\* the specification of split ranges, and every request.
ConcReqs == {1, 2}
SplitReqs == {1, 2, 3}
AllReqs == Reqs \cup ConcReqs \cup SplitReqs

\* ------------------------------------------------------ JavaScript values
\* The value undefined: no string of characters equals it.
Undefined == <<"#undefined">>

NaN == [nan |-> TRUE, v |-> 0]
Num(n) == [nan |-> FALSE, v |-> n]

\* a - b, a + b and a >= b of JavaScript numbers.
JsSub(a, b) == IF a.nan \/ b.nan THEN NaN ELSE Num(a.v - b.v)
JsAdd(a, b) == IF a.nan \/ b.nan THEN NaN ELSE Num(a.v + b.v)
JsGe(a, b) == ~a.nan /\ ~b.nan /\ a.v >= b.v

Digits == <<"0", "1", "2", "3", "4", "5", "6", "7", "8", "9">>
IsDigit(c) == \E i \in 1..10 : Digits[i] = c
DigitVal(c) == (CHOOSE i \in 1..10 : Digits[i] = c) - 1
IsSpace(c) == c = " "

\* The decimal digits of a natural number.
RECURSIVE NatStr(_)
NatStr(n) == IF n < 10 THEN <<Digits[n + 1]>>
             ELSE NatStr(n \div 10) \o <<Digits[(n % 10) + 1]>>

\* String(x) of a JavaScript number, as a template literal `${x}` renders it.
NumStr(x) == IF x.nan THEN <<"N", "a", "N">>
             ELSE IF x.v < 0 THEN <<"-">> \o NatStr(0 - x.v)
             ELSE NatStr(x.v)

\* The value of the longest prefix of digits of s, read left to right.
RECURSIVE DigitsPrefixVal(_, _)
DigitsPrefixVal(s, acc) ==
  IF s = <<>> \/ ~IsDigit(Head(s)) THEN acc
  ELSE DigitsPrefixVal(Tail(s), acc * 10 + DigitVal(Head(s)))

RECURSIVE SkipSpaces(_)
SkipSpaces(s) == IF s # <<>> /\ IsSpace(Head(s)) THEN SkipSpaces(Tail(s)) ELSE s

\* parseInt(s, 10): leading blanks skipped, an optional sign, then the longest
\* run of digits; NaN when there is no digit (and for undefined).
ParseInt(s) ==
  IF s = Undefined THEN NaN
  ELSE LET t == SkipSpaces(s)
           neg == t # <<>> /\ Head(t) = "-"
           signed == t # <<>> /\ Head(t) \in {"-", "+"}
           d == IF signed THEN Tail(t) ELSE t
       IN IF d = <<>> \/ ~IsDigit(Head(d)) THEN NaN
          ELSE IF neg THEN Num(0 - DigitsPrefixVal(d, 0))
          ELSE Num(DigitsPrefixVal(d, 0))

\* s.split("-"): the pieces of s between dashes.
RECURSIVE SplitDash(_, _)
SplitDash(s, cur) ==
  IF s = <<>> THEN <<cur>>
  ELSE IF Head(s) = "-" THEN <<cur>> \o SplitDash(Tail(s), <<>>)
  ELSE SplitDash(Tail(s), Append(cur, Head(s)))

IsPrefix(p, s) == Len(p) <= Len(s) /\ SubSeq(s, 1, Len(p)) = p
IsSuffix(p, s) == Len(p) <= Len(s) /\ SubSeq(s, Len(s) - Len(p) + 1, Len(s)) = p

BytesEq == <<"b", "y", "t", "e", "s", "=">>

\* s.replace(/bytes=/, ""): the first occurrence of "bytes=" removed.
RECURSIVE RemoveBytesEq(_)
RemoveBytesEq(s) ==
  IF s = <<>> THEN <<>>
  ELSE IF IsPrefix(BytesEq, s) THEN SubSeq(s, Len(BytesEq) + 1, Len(s))
  ELSE <<Head(s)>> \o RemoveBytesEq(Tail(s))

LowerOf(c) ==
  CASE c = "M" -> "m" [] c = "P" -> "p" [] c = "O" -> "o" [] c = "V" -> "v"
    [] c = "A" -> "a" [] c = "I" -> "i" [] c = "W" -> "w" [] c = "E" -> "e"
    [] c = "B" -> "b" [] c = "J" -> "j" [] c = "G" -> "g" [] c = "N" -> "n"
    [] OTHER -> c

\* s.toLowerCase()
ToLower(s) == [i \in 1..Len(s) |-> LowerOf(s[i])]


\* String(x) inside a template literal: undefined renders as "undefined".
Str(x) == IF x = Undefined THEN <<"u", "n", "d", "e", "f", "i", "n", "e", "d">> ELSE x

\* A JavaScript string is truthy when it is neither undefined nor empty.
Truthy(s) == s # Undefined /\ s # <<>>

\* ------------------------------------------------------ content classifier
VideoMp4 == <<"v", "i", "d", "e", "o", "/", "m", "p", "4">>
VideoQuicktime == <<"v", "i", "d", "e", "o", "/", "q", "u", "i", "c", "k", "t", "i", "m", "e">>
VideoAvi == <<"v", "i", "d", "e", "o", "/", "x", "-", "m", "s", "v", "i", "d", "e", "o">>
VideoWebm == <<"v", "i", "d", "e", "o", "/", "w", "e", "b", "m">>
ImageJpeg == <<"i", "m", "a", "g", "e", "/", "j", "p", "e", "g">>
ImagePng == <<"i", "m", "a", "g", "e", "/", "p", "n", "g">>
ImageGif == <<"i", "m", "a", "g", "e", "/", "g", "i", "f">>
ImageWebp == <<"i", "m", "a", "g", "e", "/", "w", "e", "b", "p">>
OctetStream == <<"a", "p", "p", "l", "i", "c", "a", "t", "i", "o", "n", "/",
                 "o", "c", "t", "e", "t", "-", "s", "t", "r", "e", "a", "m">>
VideoSlash == <<"v", "i", "d", "e", "o", "/">>

\* path.split('.').pop(): what follows the last dot (all of it without a dot).
RECURSIVE LastDotPiece(_, _)
LastDotPiece(s, cur) ==
  IF s = <<>> THEN cur
  ELSE IF Head(s) = "." THEN LastDotPiece(Tail(s), <<>>)
  ELSE LastDotPiece(Tail(s), Append(cur, Head(s)))

\* getContentType(path): the extension table, octet-stream for the rest.
GetContentType(path) ==
  LET ext == ToLower(LastDotPiece(path, <<>>))
  IN CASE ext = <<"m", "p", "4">> -> VideoMp4
       [] ext = <<"m", "o", "v">> -> VideoQuicktime
       [] ext = <<"a", "v", "i">> -> VideoAvi
       [] ext = <<"w", "e", "b", "m">> -> VideoWebm
       [] ext = <<"j", "p", "g">> -> ImageJpeg
       [] ext = <<"j", "p", "e", "g">> -> ImageJpeg
       [] ext = <<"p", "n", "g">> -> ImagePng
       [] ext = <<"g", "i", "f">> -> ImageGif
       [] ext = <<"w", "e", "b", "p">> -> ImageWebp
       [] OTHER -> OctetStream

\* path.match(/\.(mp4|mov|avi|webm)$/i)
MatchesVideoExt(path) ==
  \E e \in {<<".", "m", "p", "4">>, <<".", "m", "o", "v">>,
            <<".", "a", "v", "i">>, <<".", "w", "e", "b", "m">>} :
    IsSuffix(e, ToLower(path))

Origin == <<"h", "t", "t", "p", "s", ":", "/", "/", "a", "p", "i", ".", "t", "e", "l", "e",
            "g", "r", "a", "m", ".", "o", "r", "g">>
FileBot == <<"/", "f", "i", "l", "e", "/", "b", "o", "t">>

\* `https://api.telegram.org/file/bot${botToken}/${filePath}`
FileUrl(token, path) == Origin \o FileBot \o Str(token) \o <<"/">> \o Str(path)

\* new URL(fileUrl).pathname
Pathname(url) == SubSeq(url, Len(Origin) + 1, Len(url))

\* (headResponse.headers['content-type'] || '').startsWith('video/')
StartsWithVideo(ct) == IsPrefix(VideoSlash, IF Truthy(ct) THEN ct ELSE <<>>)

\* Evaluating filePath.match(...) on an undefined filePath throws a TypeError;
\* it is evaluated only when the reported type does not start with video/.
IsVideoThrows(ct, path) == ~StartsWithVideo(ct) /\ path = Undefined

IsVideoLoose(ct, path) ==
  StartsWithVideo(ct) \/ \E i \in 1..Len(path) : path[i] = "."

IsVideoTypeOnly(ct, path) == StartsWithVideo(ct)

\* const isVideo = (... || '').startsWith('video/') || filePath.match(...)
IsVideo(ct, path) == StartsWithVideo(ct) \/ MatchesVideoExt(path)

ContentTypeUpstreamWins(url, ct) ==
  IF Truthy(ct) THEN ct ELSE GetContentType(Pathname(url))

\* The Content-Type streamMedia sends: the table's type for a video extension,
\* the type the HEAD response reports (possibly undefined) for the rest.
ContentTypeOf(url, ct) ==
  IF MatchesVideoExt(Pathname(url)) THEN GetContentType(Pathname(url)) ELSE ct

\* ------------------------------------------------------------ range planner
\* fileSize, start and end as the range branch computes them.
FileSizeOf(cl) == ParseInt(cl)

RangeParts(range) == SplitDash(RemoveBytesEq(range), <<>>)

RangeStart(range) == ParseInt(RangeParts(range)[1])

RangeEndNoMinusOne(range, fileSize) ==
  LET parts == RangeParts(range)
  IN IF Len(parts) >= 2 /\ parts[2] # <<>> THEN ParseInt(parts[2]) ELSE fileSize

\* const end = parts[1] ? parseInt(parts[1], 10) : fileSize - 1
RangeEnd(range, fileSize) ==
  LET parts == RangeParts(range)
  IN IF Len(parts) >= 2 /\ parts[2] # <<>> THEN ParseInt(parts[2])
     ELSE JsSub(fileSize, Num(1))

UnsatisfiableOffByOne(start, fileSize) == ~start.nan /\ ~fileSize.nan /\ start.v > fileSize.v

\* if (start >= fileSize)
Unsatisfiable(start, fileSize) == JsGe(start, fileSize)

ChunkSizeOffByOne(start, end) == JsSub(end, start)

\* const chunksize = (end - start) + 1
ChunkSize(start, end) == JsAdd(JsSub(end, start), Num(1))

ForwardedRangeByLength(start, end) ==
  BytesEq \o NumStr(start) \o <<"-">> \o NumStr(ChunkSize(start, end))

\* `bytes=${start}-${end}`
ForwardedRange(start, end) == BytesEq \o NumStr(start) \o <<"-">> \o NumStr(end)

\* `bytes ${start}-${end}/${fileSize}`
ContentRange(start, end, fileSize) ==
  <<"b", "y", "t", "e", "s", " ">> \o NumStr(start) \o <<"-">> \o NumStr(end)
    \o <<"/">> \o NumStr(fileSize)

\* ------------------------------------------------------------------ inputs
\* process.env.TELEGRAM_BOT_TOKEN: unset, set to the empty string, or set.
Tokens == {Undefined, <<>>, <<"K", "7">>}

\* file_path values the metadata call can return.
Paths == {<<"v", ".", "m", "p", "4">>, <<"c", ".", "M", "O", "V">>,
          <<"a", ".", "a", "v", "i">>, <<"w", ".", "W", "e", "b", "M">>,
          <<"p", ".", "j", "p", "g">>, <<"d", "o", "c">>}

\* content-type values the HEAD response can carry.
HeadTypes == {Undefined, VideoMp4, OctetStream}

\* What a client can put on either side of the dash of a Range header.
RangeToks == {<<>>, <<"a">>, <<"1", "2">>} \cup {NatStr(n) : n \in 0..(MaxSize + 1)}

NoRange == [present |-> FALSE, s |-> <<>>, e |-> <<>>]
RangeReqs == {NoRange} \cup [present : {TRUE}, s : RangeToks, e : RangeToks]

\* req.headers.range of a request
RangeHeader(rq) == IF rq.present THEN BytesEq \o rq.s \o <<"-">> \o rq.e ELSE Undefined

\* content-length values the HEAD response can carry for an object of `size`
\* bytes: none, one that is no number, or the size.
HeadLengths(size) == {Undefined, <<"a", "b", "c">>, NatStr(size)}

\* ---------------------------------------------------------------- upstream
\* The bytes of an object are numbered 0..size-1; FromTo(a, b) is bytes a..b.
FromTo(a, b) == [i \in 1..(b - a + 1) |-> a + i - 1]

Min(a, b) == IF a <= b THEN a ELSE b

\* The file server answers a Range it cannot read, or whose end precedes its
\* start, with the whole object, and a start at or past the size with 416.
UpstreamIgnoresRange(fwd, size) ==
  \/ fwd = Undefined
  \/ LET s == RangeStart(fwd)
         e == RangeEnd(fwd, Num(size))
     IN s.nan \/ e.nan \/ s.v < 0 \/ s.v > e.v

UpstreamRejects(fwd, size) ==
  ~UpstreamIgnoresRange(fwd, size) /\ RangeStart(fwd).v >= size

UpstreamBytes(fwd, size) ==
  IF UpstreamIgnoresRange(fwd, size) THEN FromTo(0, size - 1)
  ELSE FromTo(RangeStart(fwd).v, Min(RangeEnd(fwd, Num(size)).v, size - 1))

\* ---------------------------------------------------------------- response
NoBody == [kind |-> "none", text |-> "", bytes |-> <<>>]
NoHeaders == [ct |-> Undefined, cr |-> Undefined, ar |-> Undefined,
              cl |-> Undefined, cc |-> Undefined]

\* A fresh http.ServerResponse. heads counts the status lines written (or
\* attempted), late the writes of a status or of body bytes made after the
\* response was started (status) or finished (body).
NewRes == [statusCode |-> 200, headersSent |-> FALSE, heads |-> 0, late |-> 0,
           headers |-> NoHeaders, body |-> NoBody, ended |-> FALSE]

Bytes == <<"b", "y", "t", "e", "s">>
CacheDay == <<"p", "u", "b", "l", "i", "c", ",", " ", "m", "a", "x", "-", "a", "g", "e",
              "=", "8", "6", "4", "0", "0">>

\* res.status(code).json({error: text, ...}) and res.status(code).send(text)
SendBody(rs, code, kind, text) ==
  [rs EXCEPT !.statusCode = code,
             !.heads = @ + 1,
             !.late = IF rs.headersSent \/ rs.ended THEN @ + 1 ELSE @,
             !.headersSent = TRUE,
             !.body = IF rs.ended THEN @ ELSE [kind |-> kind, text |-> text, bytes |-> @.bytes],
             !.ended = TRUE]

SendJson(rs, code, text) == SendBody(rs, code, "json", text)
SendText(rs, code, text) == SendBody(rs, code, "text", text)

\* res.writeHead(206, {...})
WriteHead(rs, code, hs) ==
  [rs EXCEPT !.statusCode = code,
             !.heads = @ + 1,
             !.late = IF rs.headersSent \/ rs.ended THEN @ + 1 ELSE @,
             !.headersSent = TRUE,
             !.headers = hs]

\* res.end(): flushes the implicit head when none was sent; a second end is a no-op.
EndRes(rs) ==
  IF rs.ended THEN rs
  ELSE [rs EXCEPT !.heads = IF rs.headersSent THEN @ ELSE @ + 1,
                  !.headersSent = TRUE,
                  !.ended = TRUE]

\* res.write(chunk), as pipe calls it: the first write sends the implicit head.
WriteChunk(rs, b) ==
  IF rs.ended THEN [rs EXCEPT !.late = @ + 1]
  ELSE [rs EXCEPT !.heads = IF rs.headersSent THEN @ ELSE @ + 1,
                  !.headersSent = TRUE,
                  !.body = [kind |-> "stream", text |-> "", bytes |-> Append(@.bytes, b)]]

NotSatisfiableText == "Requested range not satisfiable"

Send416Empty(rs) == EndRes([rs EXCEPT !.statusCode = 416])

\* res.status(416).send('Requested range not satisfiable')
Send416(rs) == SendText(rs, 416, NotSatisfiableText)

StreamErrorHandlerUnguarded(rs) == SendText(rs, 500, "Error during streaming")

StreamErrorHandlerNoEnd(rs) ==
  IF ~rs.headersSent THEN SendText(rs, 500, "Error during streaming") ELSE rs

\* The 'error' listener of both branches of streamMedia.
StreamErrorHandler(rs) ==
  IF ~rs.headersSent THEN SendText(rs, 500, "Error during streaming") ELSE EndRes(rs)

\* The .catch of the streamMedia call.
StreamMediaCatch(rs) ==
  IF ~rs.headersSent
  THEN SendJson(rs, 500, "Failed to fetch media due to an unhandled streaming error")
  ELSE EndRes(rs)

\* The catch block of the route handler.
RouteCatch(rs) ==
  IF ~rs.headersSent THEN SendJson(rs, 500, "Failed to fetch media info") ELSE rs

TokenCheckDropped(token) == FALSE

\* if (!botToken)
TokenMissing(token) == ~Truthy(token)

\* ------------------------------------------------------------ diagnostics
\* The position of the first occurrence of pat in s from position i on, 0
\* when there is none (String.prototype.indexOf, counted from 1).
RECURSIVE IndexFrom(_, _, _)
IndexFrom(s, pat, i) ==
  IF i + Len(pat) - 1 > Len(s) THEN 0
  ELSE IF SubSeq(s, i, i + Len(pat) - 1) = pat THEN i
  ELSE IndexFrom(s, pat, i + 1)

IndexOf(s, pat) == IndexFrom(s, pat, 1)

\* s.replace(pat, rep) with a string pattern: the first occurrence only; the
\* empty pattern matches at the start.
Replace(s, pat, rp) ==
  LET i == IndexOf(s, pat)
  IN IF i = 0 THEN s
     ELSE SubSeq(s, 1, i - 1) \o rp \o SubSeq(s, i + Len(pat), Len(s))

TokenMark == <<"[", "T", "O", "K", "E", "N", "]">>

\* encodeURIComponent over the characters of the identifiers modelled.
EncodeChar(c) ==
  CASE c = "/" -> <<"%", "2", "F">>
    [] c = "?" -> <<"%", "3", "F">>
    [] c = "&" -> <<"%", "2", "6">>
    [] c = " " -> <<"%", "2", "0">>
    [] OTHER -> <<c>>

RECURSIVE EncodeURIComponent(_)
EncodeURIComponent(s) ==
  IF s = <<>> THEN <<>> ELSE EncodeChar(Head(s)) \o EncodeURIComponent(Tail(s))

\* req.params.fileId of the requests modelled.
FileId == <<"A", "/", "1">>

Bot == <<"/", "b", "o", "t">>
GetFile == <<"/", "g", "e", "t", "F", "i", "l", "e", "?", "f", "i", "l", "e", "_", "i", "d",
             "=">>

\* `https://api.telegram.org/bot${botToken}/getFile?file_id=${encodedFileId}`
TelegramApiUrl(token, fileId) ==
  Origin \o Bot \o Str(token) \o GetFile \o EncodeURIComponent(fileId)

\* A text the program logs or sends: a literal of the code or of the runtime
\* (fixed), followed by text that came from elsewhere (var).
FixedMsg(t) == [fixed |-> t, var |-> <<>>]
VarMsg(v) == [fixed |-> "", var |-> v]
NoDetails == [fixed |-> "#none", var |-> <<>>]

\* One console.log / console.error call: its first argument and its second.
LogEntry(what, msg) == [what |-> what, fixed |-> msg.fixed, var |-> msg.var]

\* error.message of a failed upstream call is the text the HTTP client and the
\* network stack give it: one that does not quote the locator of the call, and
\* one that does.
TransportTexts(url) == {<<"t", "i", "m", "e", "o", "u", "t">>, <<"E", ":", " ">> \o url}

\* The locators the program builds, the patterns it replaces in them, and
\* url.replace(pattern, '[TOKEN]') tabulated over both.
Urls ==
  {TelegramApiUrl(t, FileId) : t \in Tokens} \cup
  {FileUrl(t, p) : t \in Tokens, p \in Paths \cup {Undefined}}

Patterns == {IF Truthy(t) THEN t ELSE <<>> : t \in Tokens}

UrlTable == [pat \in Patterns |-> [u \in Urls |-> Replace(u, pat, TokenMark)]]

ReplaceToken(url, pat) == UrlTable[pat][url]

\* error.config?.url?.replace(process.env.TELEGRAM_BOT_TOKEN || '', '[TOKEN]')
RedactUrl(url, token) ==
  IF url = Undefined THEN Undefined
  ELSE ReplaceToken(url, IF Truthy(token) THEN token ELSE <<>>)

\* The two console.error calls of the catch block of the route handler.
RouteCatchLog(lg, msg, url, token) ==
  lg \o <<LogEntry("Error fetching media file info:", msg),
          LogEntry("Error details:", VarMsg(RedactUrl(url, token)))>>

\* The console.error call of the .catch of the streamMedia call.
StreamMediaCatchLog(lg, msg) ==
  Append(lg, LogEntry("Unhandled error in streamMedia function:", msg))

\* details: error.message of a 500 body, when the body is sent.
CatchDetails(rs, d, msg) == IF ~rs.headersSent THEN msg ELSE d

\* The message of the TypeError res.setHeader throws for an undefined value.
SetHeaderError(name) ==
  IF name = "ct" THEN FixedMsg("Invalid value \"undefined\" for header \"Content-Type\"")
  ELSE FixedMsg("Invalid value \"undefined\" for header \"Content-Length\"")

\* ------------------------------------------------------------------- state
VARIABLES
  botToken,      \* process.env.TELEGRAM_BOT_TOKEN
  pc,            \* where each request's handler is: idle, meta, head, get, relay, done
  rangeReq,      \* the Range header each client sent
  clientClosed,  \* whether the client connection has closed
  metaAnswer,    \* how the metadata (getFile) call was answered
  filePath,      \* fileInfoResponse.data.result.file_path
  headHdrs,      \* the headers of the HEAD response
  objSize,       \* the size of the object upstream
  local,         \* the locals of streamMedia that outlive its await
  calls,         \* the upstream calls issued: metadata, HEAD, byte-fetch
  headPath,      \* the file_path the HEAD locator was built from
  fwdRange,      \* the Range header of the byte-fetch
  stream,        \* the upstream byte stream (response.data / fileResponse.data)
  listening,     \* whether the 'error' and 'close' listeners are registered
  res,           \* the response to the client
  errDetails,    \* the details field of the 500 body of each request
  logs           \* what each request wrote with console.log / console.error

VARIABLES
  pool,             \* the pg Pool: clients checked out, connects resolved, releases
  queries,          \* the executeQuery calls, counted by where each one is
  onlineUsers,      \* let onlineUsers
  connected,        \* the sockets that are connected
  emitted,          \* the values broadcast as viewer_count_update, in order
  filters,          \* the hours and types a client filters by
  restWhere,        \* the WHERE clause GET /api/events built from them
  wsWhere,          \* the WHERE clause buildWhereClause built from them
  table,            \* the ids of the rows of messages, newest first
  apiReq,           \* the query of the last GET /api/messages of an API client
  apiRes,           \* the answer to it
  messages,         \* frontend state: messages
  messagesPage,     \* frontend state: messagesPage
  hasMoreMessages,  \* frontend state: hasMoreMessages
  messagesLoading,  \* frontend state: messagesLoading
  fetchPending,     \* a fetchData call awaits its responses
  loadPending,      \* the nextPage of each loadMoreMessages call in flight
  loading           \* frontend state: loading (the loading screen is shown)

mediaVars == <<botToken, pc, rangeReq, clientClosed, metaAnswer, filePath, headHdrs, objSize,
               local, calls, headPath, fwdRange, stream, listening, res, errDetails, logs>>
poolVars == <<pool, queries>>
socketVars == <<onlineUsers, connected, emitted>>
filterVars == <<filters, restWhere, wsWhere>>
messageVars == <<table, apiReq, apiRes, messages, messagesPage, hasMoreMessages,
                 messagesLoading, fetchPending, loadPending, loading>>

vars == <<botToken, pc, rangeReq, clientClosed, metaAnswer, filePath, headHdrs, objSize,
          local, calls, headPath, fwdRange, stream, listening, res, errDetails, logs,
          pool, queries, onlineUsers, connected, emitted, filters, restWhere, wsWhere,
          table, apiReq, apiRes, messages, messagesPage, hasMoreMessages, messagesLoading,
          fetchPending, loadPending, loading>>

\* The variables of the parts of the program other than the media route.
nonMediaVars == <<poolVars, socketVars, filterVars, messageVars>>

NoHead == [ok |-> FALSE, ct |-> Undefined, cl |-> Undefined]
NoLocal == [branch |-> "none", isVideo |-> FALSE, contentType |-> Undefined,
            fileSize |-> NaN, start |-> NaN, end |-> NaN]
NoCalls == [meta |-> 0, head |-> 0, get |-> 0]
NoStream == [state |-> "none", rem |-> <<>>, piped |-> FALSE]
NoPath == <<"#none">>

\* The media route when the process has started with one of `tokens`.
InitMedia(tokens) ==
  /\ botToken \in tokens
  /\ pc = [r \in AllReqs |-> "idle"]
  /\ rangeReq = [r \in AllReqs |-> NoRange]
  /\ clientClosed = [r \in AllReqs |-> FALSE]
  /\ metaAnswer = [r \in AllReqs |-> "none"]
  /\ filePath = [r \in AllReqs |-> Undefined]
  /\ headHdrs = [r \in AllReqs |-> NoHead]
  /\ objSize = [r \in AllReqs |-> 0]
  /\ local = [r \in AllReqs |-> NoLocal]
  /\ calls = [r \in AllReqs |-> NoCalls]
  /\ headPath = [r \in AllReqs |-> NoPath]
  /\ fwdRange = [r \in AllReqs |-> Undefined]
  /\ stream = [r \in AllReqs |-> NoStream]
  /\ listening = [r \in AllReqs |-> FALSE]
  /\ res = [r \in AllReqs |-> NewRes]
  /\ errDetails = [r \in AllReqs |-> NoDetails]
  /\ logs = [r \in AllReqs |-> <<>>]

\* new Pool(...): no client is checked out and no query has been made.
InitPool ==
  /\ pool = [out |-> 0, acquired |-> 0, released |-> 0]
  /\ queries = [waiting |-> 0, running |-> 0, returned |-> 0, threw |-> 0, refused |-> 0]

\* let onlineUsers = 0, and no socket is connected.
InitSockets ==
  /\ onlineUsers = 0
  /\ connected = {}
  /\ emitted = <<>>

NoFilters == [hours |-> Undefined, types |-> <<>>]
NoWhere == [built |-> FALSE, timed |-> FALSE, hours |-> NaN, types |-> <<>>]

\* A client is about to filter by one of `inputs`; no clause was built yet.
InitFilters(inputs) ==
  /\ filters \in inputs
  /\ restWhere = NoWhere
  /\ wsWhere = NoWhere

NoQuery == [limit |-> Undefined, page |-> Undefined]
NoReply == [status |-> 0, rows |-> <<>>]

\* The messages table is one of `tables`; the frontend has mounted with its
\* useState defaults and no request is in flight.
InitMessages(tables) ==
  /\ table \in tables
  /\ apiReq = NoQuery
  /\ apiRes = NoReply
  /\ messages = <<>>
  /\ messagesPage = 1
  /\ hasMoreMessages = TRUE
  /\ messagesLoading = FALSE
  /\ fetchPending = FALSE
  /\ loadPending = <<>>
  /\ loading = TRUE

\* The parts other than the media route, at rest: nothing filters, the table
\* is empty.
InitOthers == InitPool /\ InitSockets /\ InitFilters({NoFilters}) /\ InitMessages({<<>>})

Init == InitMedia(Tokens) /\ InitOthers

\* ----------------------------------------------------------------- actions
\* A GET /api/media/:fileId arrives with one of the Range headers `ranges`:
\* the handler runs to its first await.
MediaRequestOf(r, ranges) ==
  /\ pc[r] = "idle"
  /\ \E rq \in ranges : rangeReq' = [rangeReq EXCEPT ![r] = rq]
  /\ IF TokenMissing(botToken)
     THEN /\ res' = [res EXCEPT ![r] = SendJson(@, 500, "Telegram bot token not configured")]
          /\ pc' = [pc EXCEPT ![r] = "done"]
          /\ calls' = calls
          /\ logs' = [logs EXCEPT ![r] = Append(@,
               LogEntry("TELEGRAM_BOT_TOKEN environment variable not set", FixedMsg("")))]
     ELSE /\ calls' = [calls EXCEPT ![r].meta = @ + 1]
          /\ pc' = [pc EXCEPT ![r] = "meta"]
          /\ res' = res
          /\ logs' = logs
  /\ UNCHANGED <<botToken, clientClosed, metaAnswer, filePath, headHdrs, objSize, local,
                 headPath, fwdRange, stream, listening, errDetails>>
  /\ UNCHANGED nonMediaVars

MediaRequest(r) == MediaRequestOf(r, RangeReqs)

\* The answers of the metadata call: it times out or the connection fails
\* (axios throws); the store answers not-found with an HTTP error status (axios
\* throws); the payload has ok = false; ok = true without a result; a result
\* without file_path; a result with a file_path.
MetaAnswers == {"timeout", "httpNotFound", "okFalse", "noResult", "noPath", "path"}

MetaReturnRetry(r) ==
  /\ pc[r] = "meta"
  /\ calls[r].meta < 3
  /\ metaAnswer' = [metaAnswer EXCEPT ![r] = "timeout"]
  /\ calls' = [calls EXCEPT ![r].meta = @ + 1]
  /\ UNCHANGED <<botToken, pc, rangeReq, clientClosed, filePath, headHdrs, objSize, local,
                 headPath, fwdRange, stream, listening, res, errDetails, logs>>
  /\ UNCHANGED nonMediaVars

\* The metadata call settles with one of `answers`, naming one of `paths`: the
\* handler runs to its next await or to its end.
MetaReturnOf(r, answers, paths) ==
  /\ pc[r] = "meta"
  /\ \E a \in answers, p \in paths :
       /\ metaAnswer' = [metaAnswer EXCEPT ![r] = a]
       /\ CASE a \in {"timeout", "httpNotFound", "noResult"} ->
                 LET url == TelegramApiUrl(botToken, FileId)
                     msgs == CASE a = "timeout" -> {VarMsg(m) : m \in TransportTexts(url)}
                               [] a = "httpNotFound" ->
                                    {FixedMsg("Request failed with status code 404")}
                               [] OTHER ->
                                    {FixedMsg("Cannot read properties of undefined (reading 'file_path')")}
                     configUrl == IF a = "noResult" THEN Undefined ELSE url
                 IN /\ res' = [res EXCEPT ![r] = RouteCatch(@)]
                    /\ pc' = [pc EXCEPT ![r] = "done"]
                    /\ \E msg \in msgs :
                         /\ logs' = [logs EXCEPT ![r] = RouteCatchLog(@, msg, configUrl, botToken)]
                         /\ errDetails' = [errDetails EXCEPT ![r] = CatchDetails(res[r], @, msg)]
                    /\ UNCHANGED <<filePath, calls, headPath>>
            [] a = "okFalse" ->
                 /\ res' = [res EXCEPT ![r] = SendJson(@, 404, "File not found on Telegram")]
                 /\ pc' = [pc EXCEPT ![r] = "done"]
                 /\ logs' = [logs EXCEPT ![r] = Append(@, LogEntry("Telegram API error:", FixedMsg("")))]
                 /\ UNCHANGED <<filePath, calls, headPath, errDetails>>
            [] a \in {"noPath", "path"} ->
                 LET fp == IF a = "path" THEN p ELSE Undefined
                 IN /\ filePath' = [filePath EXCEPT ![r] = fp]
                    /\ logs' = [logs EXCEPT ![r] = Append(@,
                         LogEntry("Fetching file from:",
                                  VarMsg(ReplaceToken(FileUrl(botToken, fp), botToken))))]
                    /\ calls' = [calls EXCEPT ![r].head = @ + 1]
                    /\ headPath' = [headPath EXCEPT ![r] = fp]
                    /\ pc' = [pc EXCEPT ![r] = "head"]
                    /\ res' = res
                    /\ UNCHANGED errDetails
  /\ UNCHANGED <<botToken, rangeReq, clientClosed, headHdrs, objSize, local, fwdRange,
                 stream, listening>>
  /\ UNCHANGED nonMediaVars

MetaReturn(r) == MetaReturnOf(r, MetaAnswers, Paths)

\* The synchronous start of streamMedia, up to its await of the byte-fetch.
StreamMediaStart(r, ct, cl) ==
  LET isVideo == IsVideo(ct, filePath[r])
      range == IF isVideo THEN RangeHeader(rangeReq[r]) ELSE Undefined
      contentType == ContentTypeOf(FileUrl(botToken, filePath[r]), ct)
      fileSize == FileSizeOf(cl)
      start == RangeStart(range)
      end == RangeEnd(range, fileSize)
  IN IF isVideo /\ Truthy(range)
     THEN IF Unsatisfiable(start, fileSize)
          THEN /\ res' = [res EXCEPT ![r] = Send416(@)]
               /\ pc' = [pc EXCEPT ![r] = "done"]
               /\ local' = [local EXCEPT ![r] =
                    [branch |-> "unsatisfiable", isVideo |-> isVideo,
                     contentType |-> contentType, fileSize |-> fileSize,
                     start |-> start, end |-> end]]
               /\ UNCHANGED <<calls, fwdRange>>
          ELSE /\ calls' = [calls EXCEPT ![r].get = @ + 1]
               /\ fwdRange' = [fwdRange EXCEPT ![r] = ForwardedRange(start, end)]
               /\ local' = [local EXCEPT ![r] =
                    [branch |-> "range", isVideo |-> isVideo,
                     contentType |-> contentType, fileSize |-> fileSize,
                     start |-> start, end |-> end]]
               /\ pc' = [pc EXCEPT ![r] = "get"]
               /\ res' = res
     ELSE /\ calls' = [calls EXCEPT ![r].get = @ + 1]
          /\ fwdRange' = [fwdRange EXCEPT ![r] = Undefined]
          /\ local' = [local EXCEPT ![r] =
               [branch |-> "full", isVideo |-> isVideo, contentType |-> contentType,
                fileSize |-> NaN, start |-> NaN, end |-> NaN]]
          /\ pc' = [pc EXCEPT ![r] = "get"]
          /\ res' = res

\* What the HEAD call can answer: an object size with the content-type and
\* content-length headers sent for it.
HeadAnswers ==
  UNION {[size : {n}, ct : HeadTypes, cl : HeadLengths(n)] : n \in 0..MaxSize}

\* The HEAD call settles: it fails (axios throws), or it answers with one of
\* `answers`, and the handler classifies the content and calls streamMedia.
HeadReturnOf(r, answers) ==
  /\ pc[r] = "head"
  /\ \/ /\ res' = [res EXCEPT ![r] = RouteCatch(@)]
        /\ pc' = [pc EXCEPT ![r] = "done"]
        /\ \E m \in TransportTexts(FileUrl(botToken, filePath[r])) :
             /\ logs' = [logs EXCEPT ![r] =
                  RouteCatchLog(@, VarMsg(m), FileUrl(botToken, filePath[r]), botToken)]
             /\ errDetails' = [errDetails EXCEPT ![r] = CatchDetails(res[r], @, VarMsg(m))]
        /\ UNCHANGED <<headHdrs, objSize, local, calls, fwdRange>>
     \/ \E h \in answers :
          LET size == h.size
              ct == h.ct
              cl == h.cl
          IN
            /\ headHdrs' = [headHdrs EXCEPT ![r] = [ok |-> TRUE, ct |-> ct, cl |-> cl]]
            /\ objSize' = [objSize EXCEPT ![r] = size]
            /\ IF IsVideoThrows(ct, filePath[r])
               THEN LET msg == FixedMsg("Cannot read properties of undefined (reading 'match')")
                    IN /\ res' = [res EXCEPT ![r] = RouteCatch(@)]
                       /\ pc' = [pc EXCEPT ![r] = "done"]
                       /\ logs' = [logs EXCEPT ![r] = RouteCatchLog(@, msg, Undefined, botToken)]
                       /\ errDetails' = [errDetails EXCEPT ![r] = CatchDetails(res[r], @, msg)]
                       /\ UNCHANGED <<local, calls, fwdRange>>
               ELSE /\ StreamMediaStart(r, ct, cl)
                    /\ UNCHANGED <<errDetails, logs>>
  /\ UNCHANGED <<botToken, rangeReq, clientClosed, metaAnswer, filePath, headPath,
                 stream, listening>>
  /\ UNCHANGED nonMediaVars

HeadReturn(r) == HeadReturnOf(r, HeadAnswers)

\* res.setHeader(name, value) throws ERR_HTTP_INVALID_HEADER_VALUE for undefined.
SetHeaderThrows(v) == v = Undefined

\* The 206 head of the range branch.
PartialHeaders(l) ==
  [cr |-> ContentRange(l.start, l.end, l.fileSize),
   ar |-> Bytes,
   cl |-> NumStr(ChunkSize(l.start, l.end)),
   ct |-> l.contentType,
   cc |-> CacheDay]

FullHeadersNoLength(l, cl) ==
  IF SetHeaderThrows(l.contentType) THEN NoHeaders
  ELSE IF ~l.isVideo THEN [NoHeaders EXCEPT !.ct = l.contentType, !.cc = CacheDay]
  ELSE [NoHeaders EXCEPT !.ct = l.contentType, !.ar = Bytes, !.cc = CacheDay]

\* The headers the full branch sets, in its order, up to the first that throws.
FullHeaders(l, cl) ==
  IF SetHeaderThrows(l.contentType) THEN NoHeaders
  ELSE IF ~l.isVideo THEN [NoHeaders EXCEPT !.ct = l.contentType, !.cc = CacheDay]
  ELSE IF SetHeaderThrows(cl) THEN [NoHeaders EXCEPT !.ct = l.contentType, !.ar = Bytes]
  ELSE [NoHeaders EXCEPT !.ct = l.contentType, !.ar = Bytes, !.cl = cl, !.cc = CacheDay]

FullThrows(l, cl) ==
  SetHeaderThrows(l.contentType) \/ (l.isVideo /\ SetHeaderThrows(cl))

\* The byte-fetch settles: it fails (timeout, connection failure or an error
\* status; streamMedia rejects and the .catch answers), or it answers with a
\* stream and streamMedia runs to its end: head, pipe, listeners.
GetReturn(r) ==
  /\ pc[r] = "get"
  /\ \/ /\ res' = [res EXCEPT ![r] = StreamMediaCatch(@)]
        /\ pc' = [pc EXCEPT ![r] = "done"]
        /\ \E m \in TransportTexts(FileUrl(botToken, filePath[r])) :
             /\ logs' = [logs EXCEPT ![r] = StreamMediaCatchLog(@, VarMsg(m))]
             /\ errDetails' = [errDetails EXCEPT ![r] = CatchDetails(res[r], @, VarMsg(m))]
        /\ UNCHANGED <<stream, listening>>
     \/ /\ ~UpstreamRejects(fwdRange[r], objSize[r])
        /\ LET bytes == UpstreamBytes(fwdRange[r], objSize[r])
               l == local[r]
           IN IF l.branch = "range"
              THEN IF SetHeaderThrows(l.contentType)
                   THEN /\ res' = [res EXCEPT ![r] = StreamMediaCatch(@)]
                        /\ stream' = [stream EXCEPT ![r] =
                             [state |-> "open", rem |-> bytes, piped |-> FALSE]]
                        /\ pc' = [pc EXCEPT ![r] = "done"]
                        /\ logs' = [logs EXCEPT ![r] =
                             StreamMediaCatchLog(@, SetHeaderError("ct"))]
                        /\ errDetails' = [errDetails EXCEPT ![r] =
                             CatchDetails(res[r], @, SetHeaderError("ct"))]
                        /\ UNCHANGED listening
                   ELSE /\ res' = [res EXCEPT ![r] = WriteHead(@, 206, PartialHeaders(l))]
                        /\ stream' = [stream EXCEPT ![r] =
                             [state |-> "open", rem |-> bytes, piped |-> TRUE]]
                        /\ listening' = [listening EXCEPT ![r] = TRUE]
                        /\ pc' = [pc EXCEPT ![r] = "relay"]
                        /\ UNCHANGED <<errDetails, logs>>
              ELSE IF FullThrows(l, headHdrs[r].cl)
                   THEN /\ res' = [res EXCEPT ![r] =
                             StreamMediaCatch([@ EXCEPT !.headers = FullHeaders(l, headHdrs[r].cl)])]
                        /\ stream' = [stream EXCEPT ![r] =
                             [state |-> "open", rem |-> bytes, piped |-> FALSE]]
                        /\ pc' = [pc EXCEPT ![r] = "done"]
                        /\ LET msg == SetHeaderError(IF SetHeaderThrows(l.contentType)
                                                     THEN "ct" ELSE "cl")
                           IN /\ logs' = [logs EXCEPT ![r] = StreamMediaCatchLog(@, msg)]
                              /\ errDetails' = [errDetails EXCEPT ![r] =
                                   CatchDetails(res[r], @, msg)]
                        /\ UNCHANGED listening
                   ELSE /\ res' = [res EXCEPT ![r].headers = FullHeaders(l, headHdrs[r].cl)]
                        /\ stream' = [stream EXCEPT ![r] =
                             [state |-> "open", rem |-> bytes, piped |-> TRUE]]
                        /\ listening' = [listening EXCEPT ![r] = TRUE]
                        /\ pc' = [pc EXCEPT ![r] = "relay"]
                        /\ UNCHANGED <<errDetails, logs>>
  /\ UNCHANGED <<botToken, rangeReq, clientClosed, metaAnswer, filePath, headHdrs, objSize,
                 local, calls, headPath, fwdRange>>
  /\ UNCHANGED nonMediaVars

\* The pipe moves one byte of the upstream stream to the response. Once the
\* client connection has closed, writes to the response are refused and the
\* pipe leaves the source paused.
StreamData(r) ==
  /\ stream[r].state = "open"
  /\ stream[r].piped
  /\ stream[r].rem # <<>>
  /\ ~clientClosed[r]
  /\ res' = [res EXCEPT ![r] = WriteChunk(@, Head(stream[r].rem))]
  /\ stream' = [stream EXCEPT ![r].rem = Tail(@)]
  /\ UNCHANGED <<botToken, pc, rangeReq, clientClosed, metaAnswer, filePath, headHdrs,
                 objSize, local, calls, headPath, fwdRange, listening, errDetails, logs>>
  /\ UNCHANGED nonMediaVars

\* The upstream stream is exhausted: the pipe ends the response.
StreamEnd(r) ==
  /\ stream[r].state = "open"
  /\ stream[r].piped
  /\ stream[r].rem = <<>>
  /\ ~clientClosed[r]
  /\ stream' = [stream EXCEPT ![r].state = "ended"]
  /\ res' = [res EXCEPT ![r] = EndRes(@)]
  /\ UNCHANGED <<botToken, pc, rangeReq, clientClosed, metaAnswer, filePath, headHdrs,
                 objSize, local, calls, headPath, fwdRange, listening, errDetails, logs>>
  /\ UNCHANGED nonMediaVars

\* The upstream stream fails: its 'error' listener, when registered, runs.
StreamError(r) ==
  /\ stream[r].state = "open"
  /\ stream' = [stream EXCEPT ![r].state = "errored"]
  /\ IF listening[r]
     THEN /\ res' = [res EXCEPT ![r] = StreamErrorHandler(@)]
          /\ \E m \in TransportTexts(FileUrl(botToken, filePath[r])) :
               logs' = [logs EXCEPT ![r] = Append(@,
                 LogEntry(IF local[r].branch = "range"
                          THEN "Error while piping video chunk:"
                          ELSE "Error while piping full file:", VarMsg(m)))]
     ELSE UNCHANGED <<res, logs>>
  /\ UNCHANGED <<botToken, pc, rangeReq, clientClosed, metaAnswer, filePath, headHdrs,
                 objSize, local, calls, headPath, fwdRange, listening, errDetails>>
  /\ UNCHANGED nonMediaVars

ClientCloseAll(r) ==
  /\ pc[r] # "idle"
  /\ ~clientClosed[r]
  /\ clientClosed' = [clientClosed EXCEPT ![r] = TRUE]
  /\ stream' = [q \in AllReqs |->
                 IF listening[q] /\ stream[q].state = "open"
                 THEN [stream[q] EXCEPT !.state = "destroyed"]
                 ELSE stream[q]]
  /\ UNCHANGED <<botToken, pc, rangeReq, metaAnswer, filePath, headHdrs, objSize, local,
                 calls, headPath, fwdRange, listening, res, errDetails, logs>>
  /\ UNCHANGED nonMediaVars

\* The client connection closes: req emits 'close' once, to the listeners
\* registered at that moment; the listener of streamMedia destroys the stream.
ClientClose(r) ==
  /\ pc[r] # "idle"
  /\ ~clientClosed[r]
  /\ clientClosed' = [clientClosed EXCEPT ![r] = TRUE]
  /\ stream' = IF listening[r] /\ stream[r].state = "open"
               THEN [stream EXCEPT ![r].state = "destroyed"]
               ELSE stream
  /\ UNCHANGED <<botToken, pc, rangeReq, metaAnswer, filePath, headHdrs, objSize, local,
                 calls, headPath, fwdRange, listening, res, errDetails, logs>>
  /\ UNCHANGED nonMediaVars

Next ==
  \E r \in Reqs :
    \/ MediaRequest(r)
    \/ MetaReturn(r)
    \/ HeadReturn(r)
    \/ GetReturn(r)
    \/ StreamData(r)
    \/ StreamEnd(r)
    \/ StreamError(r)
    \/ ClientClose(r)

Spec == Init /\ [][Next]_vars

\* Every awaited upstream call settles (each has a 15 s timeout), and an open,
\* flowing stream keeps delivering. Nothing obliges the client to close or the
\* upstream to fail.
Fairness ==
  \A r \in Reqs :
    /\ WF_vars(MetaReturn(r))
    /\ WF_vars(HeadReturn(r))
    /\ WF_vars(GetReturn(r))
    /\ WF_vars(StreamData(r))
    /\ WF_vars(StreamEnd(r))

FairSpec == Init /\ [][Next]_vars /\ Fairness

\* ------------------------------------------------- concurrent requests
\* Several requests for the same object in flight at once: each is its own
\* invocation of the handler, and the steps of the invocations interleave at
\* their awaits. The process has its token; the object is a video of ConcSize
\* bytes, and each client asks for all of it or for one of the two parts of a
\* split of it.
ConcSize == 2
ConcToken == <<"K", "7">>
ConcPath == <<"v", ".", "m", "p", "4">>
ConcRanges ==
  {NoRange} \cup
  UNION {{[present |-> TRUE, s |-> NatStr(0), e |-> NatStr(k - 1)],
          [present |-> TRUE, s |-> NatStr(k), e |-> NatStr(ConcSize - 1)]} :
         k \in 1..(ConcSize - 1)}

ConcHead == [size |-> ConcSize, ct |-> VideoMp4, cl |-> NatStr(ConcSize)]

ConcInit == InitMedia({ConcToken}) /\ InitOthers

ConcNext ==
  \E r \in ConcReqs :
    \/ MediaRequestOf(r, ConcRanges)
    \/ MetaReturnOf(r, {"okFalse", "path"}, {ConcPath})
    \/ HeadReturnOf(r, {ConcHead})
    \/ GetReturn(r)
    \/ StreamData(r)
    \/ StreamEnd(r)
    \/ StreamError(r)
    \/ ClientClose(r)

ConcSpec == ConcInit /\ [][ConcNext]_vars

\* ---------------------------------------------------------- split ranges
\* Three clients fetch the same video of ConcSize bytes, one whole and two by
\* the parts of a split; the upstream answers every call, no stream fails and
\* no client leaves.
SplitNext ==
  \E r \in SplitReqs :
    \/ MediaRequestOf(r, ConcRanges)
    \/ MetaReturnOf(r, {"path"}, {ConcPath})
    \/ HeadReturnOf(r, {ConcHead}) /\ headHdrs'[r].ok
    \/ GetReturn(r) /\ stream'[r].state = "open"
    \/ StreamData(r)
    \/ StreamEnd(r)

SplitSpec == ConcInit /\ [][SplitNext]_vars

\* --------------------------------------------------------- database pool
\* max: 20 of new Pool(...)
PoolMax == 20

\* How many executeQuery calls the specification of the pool makes.
MaxQueries == 22

\* A route handler or the subscribe handler calls executeQuery: the call
\* runs to its await of pool.connect().
ExecuteQuery ==
  /\ queries.waiting + queries.running + queries.returned + queries.threw
       + queries.refused < MaxQueries
  /\ queries' = [queries EXCEPT !.waiting = @ + 1]
  /\ UNCHANGED <<pool, mediaVars, socketVars, filterVars, messageVars>>

\* pool.connect() resolves with a client: the pool hands one out while fewer
\* than max are checked out, and the call runs to its await of client.query().
PoolConnect ==
  /\ queries.waiting > 0
  /\ pool.out < PoolMax
  /\ pool' = [pool EXCEPT !.out = @ + 1, !.acquired = @ + 1]
  /\ queries' = [queries EXCEPT !.waiting = @ - 1, !.running = @ + 1]
  /\ UNCHANGED <<mediaVars, socketVars, filterVars, messageVars>>

\* pool.connect() rejects (connectionTimeoutMillis passed, or the server
\* refused): executeQuery throws before its try block, holding no client.
PoolConnectRejects ==
  /\ queries.waiting > 0
  /\ queries' = [queries EXCEPT !.waiting = @ - 1, !.refused = @ + 1]
  /\ UNCHANGED <<pool, mediaVars, socketVars, filterVars, messageVars>>

\* client.query() resolves: finally releases the client, the result returns.
QueryResolves ==
  /\ queries.running > 0
  /\ pool' = [pool EXCEPT !.out = @ - 1, !.released = @ + 1]
  /\ queries' = [queries EXCEPT !.running = @ - 1, !.returned = @ + 1]
  /\ UNCHANGED <<mediaVars, socketVars, filterVars, messageVars>>

QueryRejectsNoRelease ==
  /\ queries.running > 0
  /\ queries' = [queries EXCEPT !.running = @ - 1, !.threw = @ + 1]
  /\ UNCHANGED <<pool, mediaVars, socketVars, filterVars, messageVars>>

\* client.query() rejects: catch logs and rethrows, finally releases the
\* client, and the error reaches the caller.
QueryRejects ==
  /\ queries.running > 0
  /\ pool' = [pool EXCEPT !.out = @ - 1, !.released = @ + 1]
  /\ queries' = [queries EXCEPT !.running = @ - 1, !.threw = @ + 1]
  /\ UNCHANGED <<mediaVars, socketVars, filterVars, messageVars>>

PoolInit == InitMedia({Undefined}) /\ InitOthers

PoolNext ==
  \/ ExecuteQuery
  \/ PoolConnect
  \/ PoolConnectRejects
  \/ QueryResolves
  \/ QueryRejects

PoolSpec == PoolInit /\ [][PoolNext]_vars

\* ---------------------------------------------------------------- sockets
\* The clients that can hold a socket, and how many broadcasts a run makes
\* before no further client connects.
MaxSockets == 3
MaxEvents == 8
Sockets == 1..MaxSockets

\* io.on('connection'): the counter goes up and its new value is broadcast.
SocketConnect(k) ==
  /\ k \notin connected
  /\ Len(emitted) < MaxEvents
  /\ connected' = connected \cup {k}
  /\ onlineUsers' = onlineUsers + 1
  /\ emitted' = Append(emitted, onlineUsers + 1)
  /\ UNCHANGED <<mediaVars, poolVars, filterVars, messageVars>>

SocketDisconnectEmitFirst(k) ==
  /\ k \in connected
  /\ connected' = connected \ {k}
  /\ emitted' = Append(emitted, onlineUsers)
  /\ onlineUsers' = onlineUsers - 1
  /\ UNCHANGED <<mediaVars, poolVars, filterVars, messageVars>>

\* socket.on('disconnect'): the counter goes down and its new value is
\* broadcast.
SocketDisconnect(k) ==
  /\ k \in connected
  /\ connected' = connected \ {k}
  /\ onlineUsers' = onlineUsers - 1
  /\ emitted' = Append(emitted, onlineUsers - 1)
  /\ UNCHANGED <<mediaVars, poolVars, filterVars, messageVars>>

SocketInit == InitMedia({Undefined}) /\ InitOthers

SocketNext == \E k \in Sockets : SocketConnect(k) \/ SocketDisconnect(k)

SocketSpec == SocketInit /\ [][SocketNext]_vars

\* ----------------------------------------------------------------- filters
\* The incident types of the switch statements, and a name that is none.
AirAttack == <<"a", "i", "r", "_", "a", "t", "t", "a", "c", "k">>
AirDefence == <<"a", "i", "r", "_", "d", "e", "f", "e", "n", "c", "e">>
ElectricityShortage == <<"e", "l", "e", "c", "t", "r", "i", "c", "i", "t", "y", "_",
                         "s", "h", "o", "r", "t", "a", "g", "e">>
WaterShortage == <<"w", "a", "t", "e", "r", "_", "s", "h", "o", "r", "t", "a", "g", "e">>
UnknownExplosion == <<"u", "n", "k", "n", "o", "w", "n", "_", "e", "x", "p", "l", "o", "s",
                      "i", "o", "n">>
OtherType == <<"x">>
All == <<"a", "l", "l">>

\* switch (type) { case ...: return '<column> = true'; default: return null }
TypeColumn(type) ==
  CASE type = AirAttack -> "is_air_attack = true"
    [] type = AirDefence -> "is_air_defence = true"
    [] type = ElectricityShortage -> "is_electricity_shortage = true"
    [] type = WaterShortage -> "is_water_shortage = true"
    [] type = UnknownExplosion -> "is_unknown_explosion = true"
    [] OTHER -> "#null"

IsColumn(c) == c # "#null"

\* list.map(type => switch ...).filter(Boolean)
TypeFilters(list) == SelectSeq([i \in 1..Len(list) |-> TypeColumn(list[i])], IsColumn)

\* s.split(','): the pieces of s between commas.
RECURSIVE SplitComma(_, _)
SplitComma(s, cur) ==
  IF s = <<>> THEN <<cur>>
  ELSE IF Head(s) = "," THEN <<cur>> \o SplitComma(Tail(s), <<>>)
  ELSE SplitComma(Tail(s), Append(cur, Head(s)))

\* The comma-separated text a client puts in the types parameter for a list.
RECURSIVE JoinComma(_)
JoinComma(list) ==
  IF list = <<>> THEN <<>>
  ELSE IF Len(list) = 1 THEN list[1]
  ELSE list[1] \o <<",">> \o JoinComma(Tail(list))

\* const { hours = 24 } = req.query, and hours || 24
EventsDefaultHours == 24
WsDefaultHours == 24

\* The WHERE clause of GET /api/events for the query parameters hours and
\* types (no channels): whether it restricts the time, to how many hours,
\* and the type conditions it joins with OR.
EventsWhere(hoursParam, typesParam) ==
  LET hours == IF hoursParam = Undefined THEN NatStr(EventsDefaultHours) ELSE hoursParam
      timed == hours # All
  IN [built |-> TRUE,
      timed |-> timed,
      hours |-> IF timed THEN ParseInt(hours) ELSE NaN,
      types |-> IF Truthy(typesParam) THEN TypeFilters(SplitComma(typesParam, <<>>))
                ELSE <<>>]

\* buildWhereClause(filters), with filters.types an array.
BuildWhereClause(f) ==
  LET timed == f.hours # All
      hoursToFilter == IF Truthy(f.hours) THEN f.hours ELSE NatStr(WsDefaultHours)
  IN [built |-> TRUE,
      timed |-> timed,
      hours |-> IF timed THEN ParseInt(hoursToFilter) ELSE NaN,
      types |-> IF Len(f.types) > 0 THEN TypeFilters(f.types) ELSE <<>>]

\* The values a client gives hours: absent, empty, 0, a number, 'all', and
\* text that is no number; and the lists of types it filters by.
MaxTypes == 2
HoursValues == {Undefined, <<>>, <<"0">>, NatStr(48), All, <<"a", "b">>}
TypeChoices == {AirAttack, WaterShortage, OtherType}
TypeLists == UNION {[1..n -> TypeChoices] : n \in 0..MaxTypes}
FilterInputs == [hours : HoursValues, types : TypeLists]

\* The types parameter of the REST request for a list of types: the frontend
\* leaves it out when the list is empty.
TypesParam(list) == IF list = <<>> THEN Undefined ELSE JoinComma(list)

\* GET /api/events with the client's filters: the handler builds its clause
\* and queries with it.
EventsRequest ==
  /\ ~restWhere.built
  /\ restWhere' = EventsWhere(filters.hours, TypesParam(filters.types))
  /\ UNCHANGED <<filters, wsWhere, mediaVars, poolVars, socketVars, messageVars>>

\* socket.on('subscribe') with the client's filters: the handler builds its
\* clause with buildWhereClause and queries with it.
Subscribe ==
  /\ ~wsWhere.built
  /\ wsWhere' = BuildWhereClause(filters)
  /\ UNCHANGED <<filters, restWhere, mediaVars, poolVars, socketVars, messageVars>>

FilterInit ==
  /\ InitMedia({Undefined})
  /\ InitPool /\ InitSockets /\ InitFilters(FilterInputs) /\ InitMessages({<<>>})

FilterNext == EventsRequest \/ Subscribe

FilterSpec == FilterInit /\ [][FilterNext]_vars

\* ---------------------------------------------------------------- messages
\* const { limit = 50 } = req.query
DefaultLimit == 50

\* params: { limit: 10, ... } and length === 10 of the frontend
PageLimit == 10

\* How many rows the messages table has at most, and the page after which
\* the user stops asking for more.
MaxRows == 11
MaxPage == 3

\* The table ordered by message_timestamp DESC, as the ids of its rows: row
\* n is the newest.
TableOf(n) == [i \in 1..n |-> n + 1 - i]
Tables == {TableOf(n) : n \in 0..MaxRows}

FailureReply == [status |-> 500, rows |-> <<>>]

\* The reply of GET /api/messages when the query runs: LIMIT parseInt(limit)
\* rows from the top of the ordering. The handler reads limit only; a limit
\* that is not a number makes the query fail.
MessagesReply(tbl, limit, page) ==
  LET lim == ParseInt(IF limit = Undefined THEN NatStr(DefaultLimit) ELSE limit)
  IN IF lim.nan THEN FailureReply
     ELSE [status |-> 200,
           rows |-> SubSeq(tbl, 1, IF lim.v < Len(tbl) THEN lim.v ELSE Len(tbl))]

\* The replies the handler can give: that of the query, or 500 when
\* executeQuery throws.
MessagesReplies(tbl, limit, page) == {MessagesReply(tbl, limit, page), FailureReply}

LimitParams == {Undefined, <<"5">>, NatStr(PageLimit), <<"x">>}
PageParams == {Undefined} \cup {NatStr(n) : n \in 1..MaxPage}

\* GET /api/messages with some limit and page: the handler answers.
MessagesRequest ==
  /\ \E l \in LimitParams, p \in PageParams :
       /\ apiReq' = [limit |-> l, page |-> p]
       /\ apiRes' \in MessagesReplies(table, l, p)
  /\ UNCHANGED <<table, messages, messagesPage, hasMoreMessages, messagesLoading,
                 fetchPending, loadPending, loading>>
  /\ UNCHANGED <<mediaVars, poolVars, socketVars, filterVars>>

\* fetchData is called (on mount, on a filter change, or by the interval)
\* and runs to its await of the three requests.
FetchDataStart ==
  /\ ~fetchPending
  /\ fetchPending' = TRUE
  /\ UNCHANGED <<table, apiReq, apiRes, messages, messagesPage, hasMoreMessages,
                 messagesLoading, loadPending, loading>>
  /\ UNCHANGED <<mediaVars, poolVars, socketVars, filterVars>>

\* The requests of fetchData settle: with the rows of limit 10, page 1 the
\* list is replaced and the page reset; a rejection is logged only. Either
\* way the loading screen goes.
FetchDataReturn ==
  /\ fetchPending
  /\ fetchPending' = FALSE
  /\ loading' = FALSE
  /\ \E rp \in MessagesReplies(table, NatStr(PageLimit), NatStr(1)) :
       IF rp.status = 200
       THEN /\ messages' = rp.rows
            /\ messagesPage' = 1
            /\ hasMoreMessages' = (Len(rp.rows) = PageLimit)
       ELSE UNCHANGED <<messages, messagesPage, hasMoreMessages>>
  /\ UNCHANGED <<table, apiReq, apiRes, messagesLoading, loadPending>>
  /\ UNCHANGED <<mediaVars, poolVars, socketVars, filterVars>>

\* The user asks for more (the list is on screen only once loading is
\* false): loadMoreMessages passes its guard, sets messagesLoading and runs
\* to its await of the request for page messagesPage + 1.
LoadMoreStart ==
  /\ ~loading
  /\ ~(messagesLoading \/ ~hasMoreMessages)
  /\ messagesPage < MaxPage
  /\ messagesLoading' = TRUE
  /\ loadPending' = Append(loadPending, messagesPage + 1)
  /\ UNCHANGED <<table, apiReq, apiRes, messages, messagesPage, hasMoreMessages,
                 fetchPending, loading>>
  /\ UNCHANGED <<mediaVars, poolVars, socketVars, filterVars>>

\* The request of loadMoreMessages settles: rows are appended to the list
\* as it is now and the page becomes the one asked for; no rows end the
\* paging; a rejection is logged only; finally messagesLoading is reset.
LoadMoreReturn ==
  /\ loadPending # <<>>
  /\ LET nextPage == Head(loadPending)
     IN \E rp \in MessagesReplies(table, NatStr(PageLimit), NatStr(nextPage)) :
          IF rp.status = 200
          THEN IF Len(rp.rows) > 0
               THEN /\ messages' = messages \o rp.rows
                    /\ messagesPage' = nextPage
                    /\ hasMoreMessages' = (Len(rp.rows) = PageLimit)
               ELSE /\ hasMoreMessages' = FALSE
                    /\ UNCHANGED <<messages, messagesPage>>
          ELSE UNCHANGED <<messages, messagesPage, hasMoreMessages>>
  /\ messagesLoading' = FALSE
  /\ loadPending' = Tail(loadPending)
  /\ UNCHANGED <<table, apiReq, apiRes, fetchPending, loading>>
  /\ UNCHANGED <<mediaVars, poolVars, socketVars, filterVars>>

MessagesInit ==
  /\ InitMedia({Undefined})
  /\ InitPool /\ InitSockets /\ InitFilters({NoFilters}) /\ InitMessages(Tables)

MessagesNext ==
  \/ MessagesRequest
  \/ FetchDataStart
  \/ FetchDataReturn
  \/ LoadMoreStart
  \/ LoadMoreReturn

MessagesSpec == MessagesInit /\ [][MessagesNext]_vars

\* ------------------------------------------------------------------ claims
\* What a client or the upstream means by a token: the number whose decimal
\* digits it is, when it is one.
ClaimNats == 0..(MaxSize + 10)
IsNumTok(tok) == \E n \in ClaimNats : NatStr(n) = tok
TokVal(tok) == CHOOSE n \in ClaimNats : NatStr(n) = tok

\* The content is range-eligible, its size T is known, and the client sent
\* Range: bytes=s-e with numbers s and e.
NumericRange(r) ==
  /\ headHdrs[r].ok
  /\ local[r].isVideo
  /\ rangeReq[r].present
  /\ IsNumTok(headHdrs[r].cl)
  /\ IsNumTok(rangeReq[r].s)
  /\ IsNumTok(rangeReq[r].e)

\* C1: once the client connection of a request has closed, the upstream
\* stream of that request does not stay open: it is eventually destroyed (or
\* was never opened, or is over), whenever the close happens.
C1_UpstreamReleasedAfterClose ==
  \A r \in Reqs : clientClosed[r] ~> (stream[r].state # "open")

\* C2: a request gets at most one status line, and nothing writes a status
\* after the response was started or body bytes after it was finished.
C2_AtMostOneResponse ==
  \A r \in Reqs : res[r].heads <= 1 /\ res[r].late = 0

\* C2 witness: a stream failed after bytes were relayed, the response was
\* ended, and the client has closed as well.
C2_Witness ==
  \E r \in Reqs :
    /\ stream[r].state = "errored"
    /\ res[r].body.bytes # <<>>
    /\ res[r].ended
    /\ clientClosed[r]

\* C3: for range-eligible content of known size T, a Range whose start is a
\* number >= T is answered 416 and no byte-fetch is issued.
C3_StartBeyondSizeIs416 ==
  \A r \in Reqs :
    (/\ headHdrs[r].ok
     /\ local[r].isVideo
     /\ rangeReq[r].present
     /\ IsNumTok(headHdrs[r].cl)
     /\ IsNumTok(rangeReq[r].s)
     /\ TokVal(rangeReq[r].s) >= TokVal(headHdrs[r].cl))
    => /\ res[r].statusCode = 416
       /\ res[r].heads = 1
       /\ res[r].ended
       /\ calls[r].get = 0
       /\ stream[r].state = "none"

\* C3 witness: a start equal to the size (the boundary) was answered.
C3_Witness ==
  \E r \in Reqs :
    /\ headHdrs[r].ok
    /\ local[r].isVideo
    /\ rangeReq[r].present
    /\ IsNumTok(headHdrs[r].cl)
    /\ IsNumTok(rangeReq[r].s)
    /\ TokVal(rangeReq[r].s) = TokVal(headHdrs[r].cl)
    /\ TokVal(headHdrs[r].cl) > 0
    /\ res[r].statusCode = 416

C5_NotFoundIs404 ==
  \A r \in Reqs :
    metaAnswer[r] \in {"okFalse", "httpNotFound"}
    => /\ res[r].statusCode = 404
       /\ res[r].heads = 1
       /\ calls[r].head = 0
       /\ calls[r].get = 0

\* C6: when the metadata call succeeds without a content path, the response
\* is 404 and no request is made against a locator built from the missing path.
C6_NoPathIs404 ==
  \A r \in Reqs :
    metaAnswer[r] = "noPath"
    => /\ res[r].statusCode = 404
       /\ res[r].heads = 1
       /\ calls[r].head = 0
       /\ headPath[r] = NoPath
       /\ calls[r].get = 0

\* C7: without a bot token (unset or empty) a request is answered 500 and no
\* upstream call of any kind is issued.
C7_NoTokenNoUpstreamCall ==
  \A r \in Reqs :
    (botToken \in {Undefined, <<>>} /\ pc[r] # "idle")
    => /\ pc[r] = "done"
       /\ res[r].statusCode = 500
       /\ res[r].heads = 1
       /\ res[r].ended
       /\ calls[r] = NoCalls
       /\ stream[r].state = "none"

\* C7 witness: a request arrived while the token was missing.
C7_Witness ==
  \E r \in Reqs : botToken \in {Undefined, <<>>} /\ pc[r] = "done" /\ res[r].headersSent

\* C8: for range-eligible content of size T and Range bytes=s-e with
\* 0 <= s <= e < T, the byte-fetch carries bytes=s-e, and the response, once
\* the byte-fetch has answered, is 206 with Content-Range bytes s-e/T,
\* Accept-Ranges bytes and Content-Length e-s+1; the only other outcome is
\* the 500 of a failed byte-fetch.
C8_ValidRangeIs206 ==
  \A r \in Reqs :
    (/\ NumericRange(r)
     /\ TokVal(rangeReq[r].s) <= TokVal(rangeReq[r].e)
     /\ TokVal(rangeReq[r].e) < TokVal(headHdrs[r].cl))
    => LET s == TokVal(rangeReq[r].s)
           e == TokVal(rangeReq[r].e)
           T == TokVal(headHdrs[r].cl)
       IN /\ pc[r] \in {"get", "relay", "done"}
          /\ calls[r].get = 1
          /\ fwdRange[r] = BytesEq \o NatStr(s) \o <<"-">> \o NatStr(e)
          /\ pc[r] = "get" => res[r].heads = 0
          /\ pc[r] = "relay" =>
               /\ res[r].statusCode = 206
               /\ res[r].heads = 1
               /\ res[r].headers.cr =
                    <<"b", "y", "t", "e", "s", " ">> \o NatStr(s) \o <<"-">> \o NatStr(e)
                      \o <<"/">> \o NatStr(T)
               /\ res[r].headers.ar = Bytes
               /\ res[r].headers.cl = NatStr(e - s + 1)
          /\ pc[r] = "done" => res[r].statusCode = 500 /\ stream[r].state = "none"

\* C8 witness: a 206 was sent for a range of several bytes inside the object.
C8_Witness ==
  \E r \in Reqs :
    /\ NumericRange(r)
    /\ 0 < TokVal(rangeReq[r].s)
    /\ TokVal(rangeReq[r].s) < TokVal(rangeReq[r].e)
    /\ TokVal(rangeReq[r].e) < TokVal(headHdrs[r].cl)
    /\ res[r].statusCode = 206
    /\ res[r].ended

\* C9: every Partial plan that reaches the relay satisfies
\* start <= end < totalSize.
C9_PartialPlanWithinSize ==
  \A r \in Reqs :
    local[r].branch = "range"
    => /\ ~local[r].start.nan /\ ~local[r].end.nan /\ ~local[r].fileSize.nan
       /\ local[r].start.v <= local[r].end.v
       /\ local[r].end.v < local[r].fileSize.v

\* C10: when the HEAD response reports no usable size (content-length missing
\* or not a number), a request with a Range header yields no 206 and no
\* forwarded range.
C10_NoSizeNoPartial ==
  \A r \in Reqs :
    (headHdrs[r].ok /\ rangeReq[r].present /\ ~IsNumTok(headHdrs[r].cl))
    => res[r].statusCode # 206 /\ fwdRange[r] = Undefined

\* Paths whose extension is a video extension, with the type the table gives
\* them, and the paths whose extension is none.
ClaimVideoPaths == {<<"v", ".", "m", "p", "4">>, <<"c", ".", "M", "O", "V">>,
                    <<"a", ".", "a", "v", "i">>, <<"w", ".", "W", "e", "b", "M">>}
ClaimNonVideoPaths == {<<"p", ".", "j", "p", "g">>, <<"d", "o", "c">>}
ClaimVideoType(path) ==
  CASE path = <<"v", ".", "m", "p", "4">> -> VideoMp4
    [] path = <<"c", ".", "M", "O", "V">> -> VideoQuicktime
    [] path = <<"a", ".", "a", "v", "i">> -> VideoAvi
    [] path = <<"w", ".", "W", "e", "b", "M">> -> VideoWebm

\* C11: a Range header whose start is missing or not a number yields no
\* Partial plan: no 206 and no byte-fetch with a forwarded range.
C11_StartRequired ==
  \A r \in Reqs :
    (rangeReq[r].present /\ ~IsNumTok(rangeReq[r].s))
    => /\ res[r].statusCode # 206
       /\ local[r].branch # "range"
       /\ fwdRange[r] = Undefined

\* C12: with a numeric start s < T and no end, on range-eligible content of
\* known size T, the byte-fetch carries bytes=s-(T-1), and the response, once
\* the byte-fetch has answered, is 206 with Content-Range bytes s-(T-1)/T and
\* Content-Length T-s.
C12_OpenEndedRange ==
  \A r \in Reqs :
    (/\ headHdrs[r].ok
     /\ local[r].isVideo
     /\ rangeReq[r].present
     /\ IsNumTok(headHdrs[r].cl)
     /\ IsNumTok(rangeReq[r].s)
     /\ rangeReq[r].e = <<>>
     /\ TokVal(rangeReq[r].s) < TokVal(headHdrs[r].cl))
    => LET s == TokVal(rangeReq[r].s)
           T == TokVal(headHdrs[r].cl)
       IN /\ calls[r].get = 1
          /\ fwdRange[r] = BytesEq \o NatStr(s) \o <<"-">> \o NatStr(T - 1)
          /\ pc[r] = "relay" =>
               /\ res[r].statusCode = 206
               /\ res[r].headers.cr =
                    <<"b", "y", "t", "e", "s", " ">> \o NatStr(s) \o <<"-">> \o NatStr(T - 1)
                      \o <<"/">> \o NatStr(T)
               /\ res[r].headers.cl = NatStr(T - s)
          /\ pc[r] = "done" => res[r].statusCode = 500

\* C12 witness: bytes=s- with 0 < s < T was answered 206 and relayed.
C12_Witness ==
  \E r \in Reqs :
    /\ headHdrs[r].ok
    /\ local[r].isVideo
    /\ rangeReq[r].present
    /\ IsNumTok(headHdrs[r].cl)
    /\ IsNumTok(rangeReq[r].s)
    /\ rangeReq[r].e = <<>>
    /\ 0 < TokVal(rangeReq[r].s)
    /\ TokVal(rangeReq[r].s) < TokVal(headHdrs[r].cl)
    /\ res[r].statusCode = 206
    /\ stream[r].state = "ended"

\* C13: a Range header on content that is not range-eligible is ignored: the
\* plan is Full, the response is neither 206 nor 416, and the byte-fetch
\* carries no Range header.
C13_RangeIgnoredForNonVideo ==
  \A r \in Reqs :
    (/\ headHdrs[r].ok
     /\ rangeReq[r].present
     /\ filePath[r] \in ClaimNonVideoPaths
     /\ headHdrs[r].ct \in {Undefined, OctetStream})
    => /\ local[r].branch = "full"
       /\ res[r].statusCode \notin {206, 416}
       /\ calls[r].get = 1
       /\ fwdRange[r] = Undefined

\* C13 witness: a non-video object requested with a Range header was relayed
\* whole with status 200.
C13_Witness ==
  \E r \in Reqs :
    /\ headHdrs[r].ok
    /\ rangeReq[r].present
    /\ filePath[r] \in ClaimNonVideoPaths
    /\ headHdrs[r].ct = OctetStream
    /\ objSize[r] > 1
    /\ stream[r].state = "ended"
    /\ res[r].statusCode = 200
    /\ res[r].body.bytes = FromTo(0, objSize[r] - 1)

\* C14: a request without a Range header whose relay started and whose stream
\* did not fail before the first byte is answered 200 with Content-Type and
\* Cache-Control public, max-age=86400; for range-eligible content also with
\* Accept-Ranges bytes and the Content-Length of the HEAD response.
C14_FullResponseHeaders ==
  \A r \in Reqs :
    (~rangeReq[r].present /\ pc[r] = "relay")
    => /\ stream[r].state # "errored" => res[r].statusCode = 200
       /\ res[r].statusCode = 200 =>
            /\ res[r].headers.ct # Undefined
            /\ res[r].headers.ct = local[r].contentType
            /\ res[r].headers.cc = CacheDay
            /\ res[r].headers.cr = Undefined
            /\ local[r].isVideo =>
                 /\ res[r].headers.ar = Bytes
                 /\ res[r].headers.cl # Undefined
                 /\ res[r].headers.cl = headHdrs[r].cl
                 /\ IsNumTok(headHdrs[r].cl) => res[r].headers.cl = NatStr(objSize[r])

\* C14 witness: a video of known size was relayed whole without a Range header.
C14_Witness ==
  \E r \in Reqs :
    /\ ~rangeReq[r].present
    /\ pc[r] = "relay"
    /\ local[r].isVideo
    /\ objSize[r] > 0
    /\ IsNumTok(headHdrs[r].cl)
    /\ stream[r].state = "ended"
    /\ res[r].ended
    /\ res[r].statusCode = 200

\* C15: when the path has no video extension and the HEAD response reports no
\* content type, the type is application/octet-stream and the request is a
\* normal Full relay: a byte-fetch that answers is piped to the client.
C15_MissingTypeIsOctetStream ==
  \A r \in Reqs :
    (/\ headHdrs[r].ok
     /\ headHdrs[r].ct = Undefined
     /\ filePath[r] \in ClaimNonVideoPaths)
    => /\ local[r].contentType = OctetStream
       /\ stream[r].state # "none" => (pc[r] = "relay" /\ stream[r].piped)

\* C16: for a path with a video extension (any case), the Content-Type is the
\* table's type whatever the HEAD response reports, the content is
\* range-eligible, and a valid Range request on it is answered 206.
C16_VideoExtensionWins ==
  \A r \in Reqs :
    (headHdrs[r].ok /\ filePath[r] \in ClaimVideoPaths)
    => /\ local[r].isVideo
       /\ local[r].contentType = ClaimVideoType(filePath[r])
       /\ pc[r] = "relay" => res[r].headers.ct = ClaimVideoType(filePath[r])
       /\ (/\ pc[r] = "relay"
           /\ rangeReq[r].present
           /\ IsNumTok(headHdrs[r].cl)
           /\ IsNumTok(rangeReq[r].s)
           /\ IsNumTok(rangeReq[r].e)
           /\ TokVal(rangeReq[r].s) <= TokVal(rangeReq[r].e)
           /\ TokVal(rangeReq[r].e) < TokVal(headHdrs[r].cl))
          => res[r].statusCode = 206

\* C16 witness: c.MOV reported as application/octet-stream was served as
\* video/quicktime with 206.
C16_Witness ==
  \E r \in Reqs :
    /\ filePath[r] = <<"c", ".", "M", "O", "V">>
    /\ headHdrs[r].ct = OctetStream
    /\ res[r].statusCode = 206
    /\ res[r].headers.ct = VideoQuicktime

\* C17: whenever streamMedia has classified the content, isVideo holds exactly
\* when the Content-Type it sends starts with video/ or the extension is a
\* video extension, and exactly when that Content-Type starts with video/.
C17_EligibilityAgreesWithType ==
  \A r \in Reqs :
    local[r].branch # "none"
    => /\ local[r].isVideo <=>
            (IsPrefix(VideoSlash, local[r].contentType) \/ filePath[r] \in ClaimVideoPaths)
       /\ local[r].isVideo <=> IsPrefix(VideoSlash, local[r].contentType)

\* C17 witness: content made range-eligible by its extension alone, and
\* content that is not range-eligible, both classified.
C17_Witness ==
  \E r \in Reqs :
    /\ pc[r] = "relay"
    /\ local[r].isVideo
    /\ headHdrs[r].ct = OctetStream
    /\ filePath[r] = <<"w", ".", "W", "e", "b", "M">>

\* C18: when the upstream stream fails during relay, a response whose head
\* was not sent becomes a 500, and a response whose head was sent is ended
\* with its status, head and body left as they are.
C18_StreamFailure ==
  [][\A r \in Reqs :
       (listening[r] /\ stream[r].state = "open" /\ stream'[r].state = "errored")
       => IF ~res[r].headersSent
          THEN /\ res'[r].statusCode = 500
               /\ res'[r].heads = 1
               /\ res'[r].ended
          ELSE /\ res'[r].statusCode = res[r].statusCode
               /\ res'[r].heads = res[r].heads
               /\ res'[r].headers = res[r].headers
               /\ res'[r].body = res[r].body
               /\ res'[r].ended]_vars

\* C18 witness: a stream failed after one byte of a 206 was relayed and with
\* bytes left, and the response was ended.
C18_Witness ==
  \E r \in Reqs :
    /\ stream[r].state = "errored"
    /\ stream[r].rem # <<>>
    /\ Len(res[r].body.bytes) = 1
    /\ res[r].statusCode = 206
    /\ res[r].ended
    /\ ~clientClosed[r]

\* C19: each upstream call is issued at most once per request; a failed call
\* ends the request with 500 and no further call; a relay has exactly one
\* byte-fetch and one stream.
C19_NoRetry ==
  \A r \in Reqs :
    /\ calls[r].meta <= 1 /\ calls[r].head <= 1 /\ calls[r].get <= 1
    /\ metaAnswer[r] = "timeout" =>
         /\ pc[r] = "done"
         /\ res[r].statusCode = 500
         /\ calls[r] = [meta |-> 1, head |-> 0, get |-> 0]
    /\ (pc[r] = "done" /\ calls[r].head = 1 /\ ~headHdrs[r].ok) =>
         /\ res[r].statusCode = 500
         /\ calls[r].get = 0
    /\ (pc[r] = "done" /\ calls[r].get = 1 /\ stream[r].state = "none") =>
         res[r].statusCode = 500
    /\ pc[r] = "relay" => (calls[r].get = 1 /\ stream[r].state # "none")
    /\ stream[r].state # "none" => calls[r].get = 1

\* C19 witness: the byte-fetch failed and the request ended with 500.
C19_Witness ==
  \E r \in Reqs :
    /\ pc[r] = "done"
    /\ calls[r] = [meta |-> 1, head |-> 1, get |-> 1]
    /\ stream[r].state = "none"
    /\ res[r].statusCode = 500

\* C20: once the client has disconnected, the request has no open upstream
\* stream: the active one was closed on the disconnect, and none is opened
\* and read afterwards.
C20_DisconnectClosesStream ==
  \A r \in Reqs : clientClosed[r] => stream[r].state # "open"

\* Everything the program holds for request q.
ReqState(q) ==
  <<pc[q], rangeReq[q], clientClosed[q], metaAnswer[q], filePath[q], headHdrs[q],
    objSize[q], local[q], calls[q], headPath[q], fwdRange[q], stream[q], listening[q],
    res[q], errDetails[q], logs[q]>>

\* C21: requests in flight at once do not interact: every step of the program
\* is the step of one request and leaves everything held for every other
\* request as it was; in particular the disconnect of one client does not
\* close the stream of another request.
C21_RequestsDoNotInteract ==
  [][\E r \in ConcReqs : \A q \in ConcReqs \ {r} : ReqState(q)' = ReqState(q)]_vars

\* C21 witness: one client has disconnected and its stream was destroyed,
\* while another request, with the same Range, still relays its own stream.
C21_Witness ==
  \E r \in ConcReqs, q \in ConcReqs :
    /\ r # q
    /\ rangeReq[r] = rangeReq[q]
    /\ clientClosed[r]
    /\ stream[r].state = "destroyed"
    /\ ~clientClosed[q]
    /\ stream[q].state = "open"
    /\ stream[q].piped
    /\ res[q].body.bytes # <<>>

\* The request was answered to its end from a stream that ran to its end.
Completed(r) == stream[r].state = "ended" /\ res[r].ended

\* C22: for range-eligible content of size T and every split point k with
\* 0 < k < T, the body answered to Range: bytes=0-(k-1) followed by the body
\* answered to Range: bytes=k-(T-1) is, byte for byte, the body answered to
\* the request without Range.
C22_SplitRangesConcatenate ==
  \A a \in SplitReqs, b \in SplitReqs, c \in SplitReqs :
    \A k \in 1..(objSize[c] - 1) :
      (/\ Completed(a) /\ Completed(b) /\ Completed(c)
       /\ filePath[a] = filePath[c] /\ filePath[b] = filePath[c]
       /\ objSize[a] = objSize[c] /\ objSize[b] = objSize[c]
       /\ local[c].isVideo
       /\ rangeReq[a] = [present |-> TRUE, s |-> NatStr(0), e |-> NatStr(k - 1)]
       /\ rangeReq[b] = [present |-> TRUE, s |-> NatStr(k), e |-> NatStr(objSize[c] - 1)]
       /\ ~rangeReq[c].present)
      => res[a].body.bytes \o res[b].body.bytes = res[c].body.bytes

\* C22 witness: the three requests of a split have all been answered to
\* their end, each with bytes.
C22_Witness ==
  \E a \in SplitReqs, b \in SplitReqs, c \in SplitReqs :
    /\ Completed(a) /\ Completed(b) /\ Completed(c)
    /\ rangeReq[a].present /\ rangeReq[a].s = NatStr(0)
    /\ rangeReq[b].present /\ rangeReq[b].e = NatStr(objSize[c] - 1)
    /\ TokVal(rangeReq[b].s) = TokVal(rangeReq[a].e) + 1
    /\ ~rangeReq[c].present
    /\ res[a].body.bytes # <<>>
    /\ res[b].body.bytes # <<>>
    /\ Len(res[c].body.bytes) = objSize[c]

\* C23: when the identifier resolves to an object whose size T the HEAD call
\* reports, a request without Range whose byte-fetch was answered, whose
\* stream has not failed and whose client is connected is answered 200, and
\* its finished body has exactly T bytes.
C23_FullRequestIs200WithAllBytes ==
  \A r \in Reqs :
    (/\ filePath[r] # Undefined
     /\ headHdrs[r].ok
     /\ IsNumTok(headHdrs[r].cl)
     /\ ~rangeReq[r].present
     /\ stream[r].state \in {"open", "ended"}
     /\ ~clientClosed[r])
    => /\ res[r].statusCode = 200
       /\ (stream[r].state = "ended" => Len(res[r].body.bytes) = TokVal(headHdrs[r].cl))

\* C24: the bot token appears neither in the details of a 500 body nor in any
\* text the program logs, whatever text the error of a failed upstream call
\* carries.
C24_CredentialRedacted ==
  \A r \in Reqs :
    Truthy(botToken) =>
      /\ IndexOf(errDetails[r].var, botToken) = 0
      /\ \A i \in DOMAIN logs[r] : IndexOf(logs[r][i].var, botToken) = 0

\* C27: every accepted request eventually reaches a terminal state (its
\* response is finished or its client has gone) with its upstream stream
\* released.
C27_RequestTerminatesAndReleases ==
  \A r \in Reqs :
    (pc[r] # "idle") ~> ((res[r].ended \/ clientClosed[r]) /\ stream[r].state # "open")

\* C29: executeQuery releases every client it acquired exactly once, whether
\* the query resolved or threw: the clients checked out are those of the
\* queries still running, never more than the pool maximum, every finished
\* query (returned or thrown) has had its one release, and when no query is
\* waiting or running no client is checked out.
C29_ClientsReleasedOnce ==
  /\ pool.out = queries.running
  /\ pool.out <= PoolMax
  /\ pool.acquired = queries.running + queries.returned + queries.threw
  /\ pool.released = queries.returned + queries.threw
  /\ (queries.waiting = 0 /\ queries.running = 0 => pool.out = 0)

\* C29 witness: the pool is exhausted with a query waiting for a client,
\* after a query has thrown.
C29_Witness ==
  /\ pool.out = PoolMax
  /\ queries.waiting > 0
  /\ queries.threw > 0

\* C28: after any sequence of connects and disconnects onlineUsers is the
\* number of connected sockets (so never negative), and every connect and
\* every disconnect broadcasts the value the counter has after it.
C28_ViewerCount ==
  /\ [](onlineUsers = Cardinality(connected) /\ onlineUsers >= 0)
  /\ [][connected' # connected => emitted' = Append(emitted, onlineUsers')]_vars

\* C28 witness: after connects and disconnects, two sockets are connected
\* and the last broadcast carried 2.
C28_Witness ==
  /\ Cardinality(connected) = 2
  /\ Len(emitted) >= 4
  /\ emitted[Len(emitted)] = 2

\* C26: for the same hours and types, the clause of the subscribe handler
\* and the clause of GET /api/events restrict the time in the same way (both
\* not at all, or both to the same number of hours) and carry the same type
\* conditions.
C26_SubscribeMatchesEvents ==
  (restWhere.built /\ wsWhere.built) =>
    /\ restWhere.timed = wsWhere.timed
    /\ restWhere.hours = wsWhere.hours
    /\ restWhere.types = wsWhere.types

\* The P-th block of L rows of a table.
Block(tbl, L, P) ==
  SubSeq(tbl, (P - 1) * L + 1, IF P * L < Len(tbl) THEN P * L ELSE Len(tbl))

\* C25: a 200 reply of GET /api/messages to limit L and page P (absent: 50
\* and 1) carries the P-th block of L rows of the descending ordering.
C25_PagesAreBlocks ==
  apiRes.status = 200 =>
    LET L == ParseInt(IF apiReq.limit = Undefined THEN NatStr(DefaultLimit)
                      ELSE apiReq.limit).v
        P == IF apiReq.page = Undefined THEN 1 ELSE ParseInt(apiReq.page).v
    IN apiRes.rows = Block(table, L, P)

NoRepeats(list) == \A i, j \in 1..Len(list) : list[i] = list[j] => i = j

PagesHeld == (Len(messages) + PageLimit - 1) \div PageLimit

\* C30: whatever the order of refreshes and load-mores, the list holds each
\* message at most once, messagesPage is the number of pages the list holds
\* (1 for a list of less than a page), and at most one load-more is in
\* flight.
C30_ListConsistent ==
  /\ NoRepeats(messages)
  /\ messagesPage = (IF PagesHeld < 1 THEN 1 ELSE PagesHeld)
  /\ Len(loadPending) <= 1
====
